---- MODULE Spec2Model ----
(***************************************************************************)
(* Model of src/utils/index.js (class Utils): the decoder of packed daily  *)
(* totals, the payout accumulator, the late and early penalty rules and    *)
(* calcStakeReturn.  Every function is pure, so the state machine is: the  *)
(* caller's input data is chosen in Init, one static method is called on   *)
(* it, and the state then holds the call, its arguments, the values of its *)
(* local variables and its outcome (a returned value or a thrown error).   *)
(*                                                                         *)
(* JS numbers: stakedDays / 2 is a floating-point division, so a day count *)
(* can be a half-integer.  Every JS number that can carry such a value     *)
(* (penaltyDays, and the begin and end day of calcPayoutRewards) is held   *)
(* as TWICE its value: Num(i) is the integer i, an odd value is i + 0.5.   *)
(* big-integer amounts are unbounded integers.                             *)
(***************************************************************************)
EXTENDS Integers, Sequences, FiniteSets, TLC

VARIABLES raws, dailyData, pc, op, args, locals, ret

vars == <<raws, dailyData, pc, op, args, locals, ret>>

\* ------------------------------------------------------------------------
\* Program constants (index.js lines 3-5)
LATE_PENALTY_GRACE_DAYS == 14
LATE_PENALTY_SCALE_DAYS == 700
EARLY_PENALTY_MIN_DAYS == 90

\* ------------------------------------------------------------------------
\* Bounds of the model
\* Hex digits of the low-half mask literal (32 in the source: 128 bits).  The
\* shift width is tied to it, so the packed word has 8 * MaskHexDigits bits.
MaskHexDigits == 1
\* Longest raw sequence handed to processDailyRangeData
MaxRaws == 2
\* Lengths of the daily data the calculations run on
ShortLen == 3
LongLen == 100
\* Largest begin/end day tried directly on calcPayoutRewards
MaxDay == 4

\* ------------------------------------------------------------------------
\* Outcomes of a call: a returned value or a thrown error
Return(v) == [type |-> "return", value |-> v, error |-> ""]
Throw(e) == [type |-> "throw", value |-> 0, error |-> e]

\* JS numbers held as twice their value
Num(i) == 2 * i
IsInteger(x) == x % 2 = 0

\* ------------------------------------------------------------------------
\* big-integer operations used by the decoder
RECURSIVE shiftRight(_, _)
shiftRight(x, n) == IF n = 0 THEN x ELSE shiftRight(x \div 2, n - 1)

RECURSIVE and(_, _)
and(a, b) ==
    IF a = 0 \/ b = 0 THEN 0
    ELSE (a % 2) * (b % 2) + 2 * and(a \div 2, b \div 2)

\* BigInt('FF..F', 16): the hex literal parsed digit by digit
RECURSIVE ParseHexF(_)
ParseHexF(digits) == IF digits = 0 THEN 0 ELSE 16 * ParseHexF(digits - 1) + 15

ShiftBitsShort == 4 * MaskHexDigits - 1
ShiftBits == 4 * MaskHexDigits

LowMask == ParseHexF(MaskHexDigits)

decodeDay(sharesHearts) ==
    [dayStakeSharesTotal |-> shiftRight(sharesHearts, ShiftBits),
     dayPayoutTotal |-> and(sharesHearts, LowMask)]

processDailyRangeData(data) == [i \in 1..Len(data) |-> decodeDay(data[i])]

\* ------------------------------------------------------------------------
\* Decoder specification: a raw sequence is chosen, then decoded
\* Half the width of a packed word (128 in the program)
HalfBits == 4 * MaskHexDigits
RawLimit == 2 ^ (2 * HalfBits)
RawSamples == {0, 1, 2 ^ HalfBits - 1, 2 ^ HalfBits, RawLimit - 1}
RawInputs ==
    {<<r>> : r \in 0..(RawLimit - 1)}
        \cup UNION {[1..n -> RawSamples] : n \in 0..MaxRaws}

NoArgs == [none |-> TRUE]

InitDecode ==
    /\ raws \in RawInputs
    /\ dailyData = <<>>
    /\ pc = "idle"
    /\ op = "none"
    /\ args = NoArgs
    /\ locals = NoArgs
    /\ ret = Return(0)

ProcessDailyRangeData ==
    /\ pc = "idle"
    /\ pc' = "done"
    /\ op' = "processDailyRangeData"
    /\ dailyData' = processDailyRangeData(raws)
    /\ ret' = Return(0)
    /\ UNCHANGED <<raws, args, locals>>

NextDecode == ProcessDailyRangeData

SpecDecode == InitDecode /\ [][NextDecode]_vars

\* ------------------------------------------------------------------------
\* calcPayoutRewards (lines 19-26).  `a` is the JS argument list
\* <<dailyPayoutData, stakeShares, beginDay, endDay>>; a parameter the caller
\* does not pass is undefined.  beginDay and endDay are held as twice their
\* value.

\* dailyPayoutData[day] is an element: day is an integer index inside the array
HasDay(dailyPayoutData, day) ==
    /\ IsInteger(day)
    /\ day \div 2 >= 0
    /\ day \div 2 < Len(dailyPayoutData)

\* line 21: day < endDay; a comparison with undefined is false
LoopCondInclusive(a, day) == Len(a) >= 4 /\ day <= a[4]
LoopCond(a, day) == Len(a) >= 4 /\ day < a[4]

\* lines 22-23: payout after one day's term is added; reading a field of a
\* missing element throws a TypeError, big-integer's div throws on a zero divisor
AddDayPayoutLenient(payout, dailyPayoutData, stakeShares, day) ==
    IF ~HasDay(dailyPayoutData, day) THEN Return(payout)
    ELSE LET rec == dailyPayoutData[day \div 2 + 1] IN
         IF rec.dayStakeSharesTotal = 0 THEN Throw("DivideByZero")
         ELSE Return(payout
                  + (rec.dayPayoutTotal * stakeShares) \div rec.dayStakeSharesTotal)
AddDayPayout(payout, dailyPayoutData, stakeShares, day) ==
    IF ~HasDay(dailyPayoutData, day) THEN Throw("TypeError")
    ELSE LET rec == dailyPayoutData[day \div 2 + 1] IN
         IF rec.dayStakeSharesTotal = 0 THEN Throw("DivideByZero")
         ELSE Return(payout
                  + (rec.dayPayoutTotal * stakeShares) \div rec.dayStakeSharesTotal)

\* line 21: how many times the loop body runs (day = beginDay, beginDay + 1, ...
\* while the loop condition holds)
LoopCount(a) ==
    IF Len(a) < 4 THEN 0
    ELSE Cardinality({k \in 0..(a[4] - a[3]) : LoopCond(a, a[3] + Num(k))})

\* lines 21-24: iterations first .. first + n - 1 of the loop, in order, from
\* the running payout; the first throw ends the loop.  The run is split in
\* two halves only to keep the evaluation shallow.
RECURSIVE PayoutLoop(_, _, _, _)
PayoutLoop(a, first, n, payout) ==
    IF n = 0 THEN Return(payout)
    ELSE IF n = 1 THEN AddDayPayout(payout, a[1], a[2], a[3] + Num(first))
    ELSE LET head == PayoutLoop(a, first, n \div 2, payout) IN
         IF head.type = "throw" THEN head
         ELSE PayoutLoop(a, first + n \div 2, n - n \div 2, head.value)

calcPayoutRewards(a) == PayoutLoop(a, 0, LoopCount(a), 0)

\* estimatePayoutRewardsDay (lines 28-34); sampleDay is a plain integer
estimatePayoutRewardsDay(dailyDataArg, stakeSharesParam, sampleDay) ==
    IF ~HasDay(dailyDataArg, Num(sampleDay)) THEN Throw("TypeError")
    ELSE LET rec == dailyDataArg[sampleDay + 1] IN
         IF rec.dayStakeSharesTotal + stakeSharesParam = 0 THEN Throw("DivideByZero")
         ELSE Return((rec.dayPayoutTotal * stakeSharesParam)
                        \div (rec.dayStakeSharesTotal + stakeSharesParam))

\* ------------------------------------------------------------------------
\* calcLatePenalty (lines 36-49); all three arguments are integers
calcLatePenaltyNoGrace(stakedDays, unpooledDays, rawStakeReturn) ==
    IF unpooledDays <= stakedDays THEN 0
    ELSE (rawStakeReturn * (unpooledDays - stakedDays)) \div LATE_PENALTY_SCALE_DAYS
calcLatePenalty(stakedDays, unpooledDays, rawStakeReturn) ==
    LET effectiveStakedDays == stakedDays + LATE_PENALTY_GRACE_DAYS IN
    IF unpooledDays <= effectiveStakedDays THEN 0
    ELSE (rawStakeReturn * (unpooledDays - effectiveStakedDays))
             \div LATE_PENALTY_SCALE_DAYS

\* ------------------------------------------------------------------------
\* calcPayoutAndEarlyPenalty (lines 51-106)

\* lines 64-67: stakedDays / 2 + (stakedDays % 2), at least the minimum; the
\* division is JS's, so the result (held as twice its value) can be odd
PenaltyDays(stakedDays) ==
    LET penaltyDays == stakedDays + Num(stakedDays % 2) IN
    IF penaltyDays < Num(EARLY_PENALTY_MIN_DAYS) THEN Num(EARLY_PENALTY_MIN_DAYS)
    ELSE penaltyDays

\* big.mul(n) for a JS number n: big-integer refuses a number that is not an
\* integer
BigMul(big, n) ==
    IF IsInteger(n) THEN Return(big * (n \div 2)) ELSE Throw("NotAnInteger")

calcPayoutAndEarlyPenalty(dailyPayoutData, pooledDay, stakedDays, servedDays, stakeShares) ==
    LET servedEndDay == pooledDay + servedDays
        penaltyDays == PenaltyDays(stakedDays)
    IN
    IF servedDays = 0 THEN
        LET expected == estimatePayoutRewardsDay(dailyPayoutData, stakeShares, pooledDay - 1) IN
        IF expected.type = "throw" THEN expected
        ELSE LET penalty == BigMul(expected.value, penaltyDays) IN
             IF penalty.type = "throw" THEN penalty
             ELSE Return(<<0, penalty.value>>)
    ELSE IF penaltyDays < Num(servedDays) THEN
        LET penaltyEndDay == Num(pooledDay) + penaltyDays
            penalty == calcPayoutRewards(
                <<dailyPayoutData, stakeShares, Num(pooledDay), penaltyEndDay>>)
            delta == calcPayoutRewards(
                <<dailyPayoutData, stakeShares, penaltyEndDay, Num(servedEndDay)>>)
        IN
        IF penalty.type = "throw" THEN penalty
        ELSE IF delta.type = "throw" THEN delta
        ELSE Return(<<penalty.value + delta.value, penalty.value>>)
    ELSE
        LET payout == calcPayoutRewards(
                <<dailyPayoutData, stakeShares, Num(pooledDay), Num(servedEndDay)>>)
        IN
        IF payout.type = "throw" THEN payout
        ELSE IF penaltyDays = Num(servedDays) THEN Return(<<payout.value, payout.value>>)
        ELSE LET scaled == BigMul(payout.value, penaltyDays) IN
             IF scaled.type = "throw" THEN scaled
             ELSE Return(<<payout.value, scaled.value \div servedDays>>)

\* ------------------------------------------------------------------------
\* calcStakeReturn (lines 108-145)

\* lines 114-132: payout, penalty and stakeReturn before the capping step.
\* Line 124 calls calcPayoutRewards with three arguments: the share weight in
\* the place of the daily data, and no endDay.
StakeReturnLocalsEarlyPenaltyDropped(dailyDataArg, st, servedDays) ==
    IF servedDays < st.stakedDays THEN
        LET r == calcPayoutAndEarlyPenalty(
                dailyDataArg, st.pooledDay, st.stakedDays, servedDays, st.stakeShares)
        IN
        IF r.type = "throw" THEN r
        ELSE Return([payout |-> r.value[1], penalty |-> 0,
                     stakeReturn |-> st.stakedHearts + r.value[1]])
    ELSE
        LET payout == calcPayoutRewards(
                <<st.stakeShares, st.pooledDay, Num(st.pooledDay + servedDays)>>)
        IN
        IF payout.type = "throw" THEN payout
        ELSE LET stakeReturn == st.stakedHearts + payout.value IN
             Return([payout |-> payout.value,
                     penalty |-> calcLatePenalty(
                         st.stakedDays, st.unpooledDay - st.pooledDay, stakeReturn),
                     stakeReturn |-> stakeReturn])
StakeReturnLocals(dailyDataArg, st, servedDays) ==
    IF servedDays < st.stakedDays THEN
        LET r == calcPayoutAndEarlyPenalty(
                dailyDataArg, st.pooledDay, st.stakedDays, servedDays, st.stakeShares)
        IN
        IF r.type = "throw" THEN r
        ELSE Return([payout |-> r.value[1], penalty |-> r.value[2],
                     stakeReturn |-> st.stakedHearts + r.value[1]])
    ELSE
        LET payout == calcPayoutRewards(
                <<st.stakeShares, st.pooledDay, Num(st.pooledDay + servedDays)>>)
        IN
        IF payout.type = "throw" THEN payout
        ELSE LET stakeReturn == st.stakedHearts + payout.value IN
             Return([payout |-> payout.value,
                     penalty |-> calcLatePenalty(
                         st.stakedDays, st.unpooledDay - st.pooledDay, stakeReturn),
                     stakeReturn |-> stakeReturn])

\* lines 133-144
CapPenaltyUnclamped(penalty, stakeReturn) ==
    IF penalty # 0 THEN stakeReturn - penalty ELSE stakeReturn
CapPenalty(penalty, stakeReturn) ==
    IF penalty # 0 THEN
        IF penalty > stakeReturn THEN 0 ELSE stakeReturn - penalty
    ELSE stakeReturn

calcStakeReturn(dailyDataArg, st, servedDays) ==
    LET l == StakeReturnLocals(dailyDataArg, st, servedDays) IN
    IF l.type = "throw" THEN l
    ELSE Return(CapPenalty(l.value.penalty, l.value.stakeReturn))

\* ------------------------------------------------------------------------
\* Calculation specification: the decoded daily data is chosen, then one
\* static method is called on it.

DayRecord(shares, payout) == [dayStakeSharesTotal |-> shares, dayPayoutTotal |-> payout]
DayRecords == {DayRecord(1000, 100), DayRecord(3, 7), DayRecord(0, 100)}

\* n days alternating between two records (the same record twice: every day alike)
Alternate(n, r1, r2) == [d \in 1..n |-> IF d % 2 = 1 THEN r1 ELSE r2]
DataLens == {1, ShortLen, LongLen}
DailyDataInputs == {Alternate(n, r1, r2) : n \in DataLens, r1 \in DayRecords, r2 \in DayRecords}

PooledDays == {0, 1, 2}
StakedDaysInputs == {1, 2, 100, 180, 181, 200}
ServedDaysInputs == {0, 1, 2, 90, 95, 96}
UnpooledDays == {10, 715, 1000}
StakeSharesInputs == {0, 2, 500}
StakedHeartsInputs == {0, 7, 1000}
RangeDays == (-1)..MaxDay
LateOffsets == {-20, 0, 13, 14, 15, 64, 714, 1000}
RawReturns == {0, 1, 50, 699, 700, 1000}

Init ==
    /\ raws = <<>>
    /\ dailyData \in DailyDataInputs
    /\ pc = "idle"
    /\ op = "none"
    /\ args = NoArgs
    /\ locals = NoArgs
    /\ ret = Return(0)

CalcPayoutRewards ==
    /\ pc = "idle"
    /\ \E stakeShares \in StakeSharesInputs, beginDay \in RangeDays, endDay \in RangeDays :
        /\ args' = [stakeShares |-> stakeShares, beginDay |-> beginDay, endDay |-> endDay]
        /\ ret' = calcPayoutRewards(<<dailyData, stakeShares, Num(beginDay), Num(endDay)>>)
    /\ op' = "calcPayoutRewards"
    /\ pc' = "done"
    /\ UNCHANGED <<raws, dailyData, locals>>

EstimatePayoutRewardsDay ==
    /\ pc = "idle"
    /\ \E stakeShares \in StakeSharesInputs, sampleDay \in RangeDays :
        /\ args' = [stakeShares |-> stakeShares, sampleDay |-> sampleDay]
        /\ ret' = estimatePayoutRewardsDay(dailyData, stakeShares, sampleDay)
    /\ op' = "estimatePayoutRewardsDay"
    /\ pc' = "done"
    /\ UNCHANGED <<raws, dailyData, locals>>

CalcLatePenalty ==
    /\ pc = "idle"
    /\ \E stakedDays \in StakedDaysInputs, off \in LateOffsets, rawStakeReturn \in RawReturns :
        /\ args' = [stakedDays |-> stakedDays, unpooledDays |-> stakedDays + off,
                    rawStakeReturn |-> rawStakeReturn]
        /\ ret' = Return(calcLatePenalty(stakedDays, stakedDays + off, rawStakeReturn))
    /\ op' = "calcLatePenalty"
    /\ pc' = "done"
    /\ UNCHANGED <<raws, dailyData, locals>>

CalcPayoutAndEarlyPenalty ==
    /\ pc = "idle"
    /\ \E pooledDay \in PooledDays, stakedDays \in StakedDaysInputs,
          servedDays \in ServedDaysInputs, stakeShares \in StakeSharesInputs :
        /\ args' = [pooledDay |-> pooledDay, stakedDays |-> stakedDays,
                    servedDays |-> servedDays, stakeShares |-> stakeShares]
        /\ locals' = [penaltyDays |-> PenaltyDays(stakedDays)]
        /\ ret' = calcPayoutAndEarlyPenalty(
                      dailyData, pooledDay, stakedDays, servedDays, stakeShares)
    /\ op' = "calcPayoutAndEarlyPenalty"
    /\ pc' = "done"
    /\ UNCHANGED <<raws, dailyData>>

CalcStakeReturn ==
    /\ pc = "idle"
    /\ \E pooledDay \in PooledDays, stakedDays \in StakedDaysInputs,
          unpooledDay \in UnpooledDays, stakeShares \in StakeSharesInputs,
          stakedHearts \in StakedHeartsInputs, servedDays \in ServedDaysInputs :
        LET st == [pooledDay |-> pooledDay, stakedDays |-> stakedDays,
                   unpooledDay |-> unpooledDay, stakeShares |-> stakeShares,
                   stakedHearts |-> stakedHearts]
            l == StakeReturnLocals(dailyData, st, servedDays)
        IN
        /\ args' = [st |-> st, servedDays |-> servedDays]
        /\ locals' = IF l.type = "throw" THEN NoArgs ELSE l.value
        /\ ret' = calcStakeReturn(dailyData, st, servedDays)
    /\ op' = "calcStakeReturn"
    /\ pc' = "done"
    /\ UNCHANGED <<raws, dailyData>>

Next ==
    \/ CalcPayoutRewards
    \/ EstimatePayoutRewardsDay
    \/ CalcLatePenalty
    \/ CalcPayoutAndEarlyPenalty
    \/ CalcStakeReturn

Spec == Init /\ [][Next]_vars

\* ------------------------------------------------------------------------
\* Vocabulary of the properties: the amounts as the specification words them,
\* over integer days d with 0 <= d < Len(data)

Max(x, y) == IF x >= y THEN x ELSE y

\* day d of the data (days count from 0)
Day(data, d) == data[d + 1]
InData(data, d) == d >= 0 /\ d < Len(data)

\* every day of [beginDay, endDay) is in the data and has a non-zero share total
ValidRange(data, beginDay, endDay) ==
    \A d \in beginDay..(endDay - 1) :
        InData(data, d) /\ Day(data, d).dayStakeSharesTotal # 0

\* floor(dayPayoutTotal[d] * stakeShares / dayStakeSharesTotal[d])
DayShare(data, stakeShares, d) ==
    (Day(data, d).dayPayoutTotal * stakeShares) \div Day(data, d).dayStakeSharesTotal

\* the sum of DayShare over the days of [beginDay, endDay)
RECURSIVE SumDays(_, _, _, _)
SumDays(data, stakeShares, beginDay, endDay) ==
    IF beginDay >= endDay THEN 0
    ELSE IF endDay = beginDay + 1 THEN DayShare(data, stakeShares, beginDay)
    ELSE LET mid == (beginDay + endDay) \div 2 IN
         SumDays(data, stakeShares, beginDay, mid) + SumDays(data, stakeShares, mid, endDay)

\* ------------------------------------------------------------------------
\* C8: decoding splits every raw value r < 2^(2 * HalfBits) into
\* dayStakeSharesTotal = r >> HalfBits and dayPayoutTotal = r mod 2^HalfBits,
\* so (dayStakeSharesTotal << HalfBits) | dayPayoutTotal = r; the output has
\* the input's length and record i comes from raw i.
C8_DecodeRoundTrip ==
    op = "processDailyRangeData" =>
        /\ Len(dailyData) = Len(raws)
        /\ \A i \in 1..Len(raws) :
            /\ dailyData[i].dayStakeSharesTotal = raws[i] \div (2 ^ HalfBits)
            /\ dailyData[i].dayPayoutTotal = raws[i] % (2 ^ HalfBits)
            /\ dailyData[i].dayStakeSharesTotal * (2 ^ HalfBits)
                   + dailyData[i].dayPayoutTotal = raws[i]

\* two different raw values, the first with both halves non-zero, decoded
C8_Witness ==
    /\ op = "processDailyRangeData"
    /\ Len(raws) = 2
    /\ raws[1] # raws[2]
    /\ dailyData[1].dayStakeSharesTotal > 0
    /\ dailyData[1].dayPayoutTotal > 0
    /\ dailyData[2] # dailyData[1]

\* ------------------------------------------------------------------------
\* C7: calcLatePenalty is 0 whenever unpooledDays <= stakedDays + 14, and
\* otherwise floor(rawStakeReturn * (unpooledDays - stakedDays - 14) / 700);
\* it equals rawStakeReturn when the excess over the grace window is 700 days.
C7_LatePenalty ==
    op = "calcLatePenalty" =>
        LET excess == args.unpooledDays - args.stakedDays - 14 IN
        /\ ret.type = "return"
        /\ excess <= 0 => ret.value = 0
        /\ excess > 0 =>
            /\ 700 * ret.value <= args.rawStakeReturn * excess
            /\ args.rawStakeReturn * excess < 700 * (ret.value + 1)
        /\ excess = 700 => ret.value = args.rawStakeReturn

\* a non-zero return wholly consumed by a penalty 700 days past the grace window
C7_Witness ==
    /\ op = "calcLatePenalty"
    /\ args.unpooledDays = args.stakedDays + 714
    /\ args.rawStakeReturn > 0
    /\ ret.value = args.rawStakeReturn

\* ------------------------------------------------------------------------
\* C4: additivity of calcPayoutRewards: over valid days,
\* accumulate(begin, end) = accumulate(begin, mid) + accumulate(mid, end) for
\* every begin < mid < end, each day's term floored before it is added.
C4_Additivity ==
    (/\ op = "calcPayoutRewards"
     /\ ValidRange(dailyData, args.beginDay, args.endDay)) =>
        /\ ret.type = "return"
        /\ \A mid \in (args.beginDay + 1)..(args.endDay - 1) :
            LET left == calcPayoutRewards(
                    <<dailyData, args.stakeShares, Num(args.beginDay), Num(mid)>>)
                right == calcPayoutRewards(
                    <<dailyData, args.stakeShares, Num(mid), Num(args.endDay)>>)
            IN
            /\ left.type = "return"
            /\ right.type = "return"
            /\ ret.value = left.value + right.value

\* a range of three valid days with a non-zero sum and a day whose term is
\* rounded down
C4_Witness ==
    /\ op = "calcPayoutRewards"
    /\ args.endDay >= args.beginDay + 3
    /\ ValidRange(dailyData, args.beginDay, args.endDay)
    /\ ret.type = "return"
    /\ ret.value > 0
    /\ \E d \in args.beginDay..(args.endDay - 1) :
        (Day(dailyData, d).dayPayoutTotal * args.stakeShares)
            % Day(dailyData, d).dayStakeSharesTotal # 0

\* ------------------------------------------------------------------------
\* C5 as stated: calcPayoutRewards ends in an error, and returns no amount,
\* whenever beginDay > endDay or the range [beginDay, endDay) references a day
\* outside dailyData.
OutsideData(data, beginDay, endDay) ==
    \E d \in beginDay..(endDay - 1) : ~InData(data, d)

C5_InvalidRangeFails ==
    (/\ op = "calcPayoutRewards"
     /\ \/ args.beginDay > args.endDay
        \/ OutsideData(dailyData, args.beginDay, args.endDay)) =>
        ret.type = "throw"

\* C5 amended: calcPayoutRewards returns the amount 0 whenever
\* beginDay >= endDay; whenever beginDay < endDay and the range references a
\* day outside dailyData it ends in an error and returns no amount: the
\* TypeError of reading the missing record, or the division error of a zero
\* share total in the range.
C5_RangeOutcome ==
    op = "calcPayoutRewards" =>
        /\ args.beginDay >= args.endDay => ret = Return(0)
        /\ (/\ args.beginDay < args.endDay
            /\ OutsideData(dailyData, args.beginDay, args.endDay)) =>
               /\ ret.type = "throw"
               /\ ret.error \in {"TypeError", "DivideByZero"}
               /\ (\A d \in args.beginDay..(args.endDay - 1) :
                       InData(dailyData, d) => Day(dailyData, d).dayStakeSharesTotal # 0)
                    => ret.error = "TypeError"

\* a range that starts inside the data and runs past its end
C5_Witness ==
    /\ op = "calcPayoutRewards"
    /\ InData(dailyData, args.beginDay)
    /\ args.endDay > Len(dailyData)
    /\ ret = Throw("TypeError")

\* ------------------------------------------------------------------------
\* C3: whenever calcStakeReturn returns a value, on the early-exit and on the
\* late-exit branch, the value is >= 0, and it is exactly 0 when the penalty
\* exceeds stakeReturn.
C3_NonNegative ==
    (op = "calcStakeReturn" /\ ret.type = "return") =>
        /\ ret.value >= 0
        /\ locals.penalty > locals.stakeReturn => ret.value = 0
        /\ locals.penalty <= locals.stakeReturn =>
               ret.value = locals.stakeReturn - locals.penalty

\* a late exit whose penalty exceeds the non-zero stake return
C3_Witness ==
    /\ op = "calcStakeReturn"
    /\ args.servedDays >= args.st.stakedDays
    /\ ret.type = "return"
    /\ locals.stakeReturn > 0
    /\ locals.penalty > locals.stakeReturn
    /\ ret.value = 0

\* ------------------------------------------------------------------------
\* C1: for a stake with servedDays >= stakedDays and valid daily data,
\* calcStakeReturn computes payout = the sum over the days of
\* [pooledDay, pooledDay + servedDays) of the floored daily shares,
\* stakeReturn = stakedHearts + payout, and returns stakeReturn less
\* latePenalty(stakedDays, unpooledDay - pooledDay, stakeReturn), clamped at 0
\* (Scenario A: 50).
C1_LateExitReturn ==
    (/\ op = "calcStakeReturn"
     /\ args.servedDays >= args.st.stakedDays
     /\ ValidRange(dailyData, args.st.pooledDay, args.st.pooledDay + args.servedDays)) =>
        LET st == args.st
            payout == SumDays(dailyData, st.stakeShares, st.pooledDay,
                              st.pooledDay + args.servedDays)
            stakeReturn == st.stakedHearts + payout
            penalty == calcLatePenalty(
                st.stakedDays, st.unpooledDay - st.pooledDay, stakeReturn)
        IN ret = Return(Max(0, stakeReturn - penalty))

\* ------------------------------------------------------------------------
\* C2 as stated: on an early exit (servedDays < stakedDays) calcStakeReturn
\* returns exactly stakedHearts + payout, payout being the payout component of
\* calcPayoutAndEarlyPenalty: the early penalty is never subtracted.
EarlyPair ==
    calcPayoutAndEarlyPenalty(dailyData, args.st.pooledDay, args.st.stakedDays,
                              args.servedDays, args.st.stakeShares)

C2_EarlyExitNoPenalty ==
    (/\ op = "calcStakeReturn"
     /\ args.servedDays < args.st.stakedDays
     /\ ret.type = "return") =>
        ret.value = args.st.stakedHearts + EarlyPair.value[1]

\* C2 amended: on an early exit calcStakeReturn returns
\* stakedHearts + payout - penalty clamped at 0, (payout, penalty) being the
\* pair calcPayoutAndEarlyPenalty returns, and ends in that call's error when
\* it throws: the capping step applies to the early-exit branch as well.
C2_EarlyExitPenaltyCapped ==
    (op = "calcStakeReturn" /\ args.servedDays < args.st.stakedDays) =>
        IF EarlyPair.type = "throw" THEN ret = EarlyPair
        ELSE ret = Return(Max(0, args.st.stakedHearts + EarlyPair.value[1]
                                     - EarlyPair.value[2]))

\* an early exit that keeps part of its return after a non-zero penalty
C2_Witness ==
    /\ op = "calcStakeReturn"
    /\ args.servedDays < args.st.stakedDays
    /\ args.servedDays > 0
    /\ ret.type = "return"
    /\ locals.penalty > 0
    /\ ret.value > 0
    /\ ret.value < args.st.stakedHearts + locals.payout

\* ------------------------------------------------------------------------
\* C6: whenever a day of the served range [pooledDay, pooledDay + servedDays)
\* has a zero share total, calcStakeReturn ends in an error, on the early-exit
\* and on the late-exit branch alike, and returns no amount.
C6_ZeroDivisorPropagates ==
    (/\ op = "calcStakeReturn"
     /\ \E d \in args.st.pooledDay..(args.st.pooledDay + args.servedDays - 1) :
            InData(dailyData, d) /\ Day(dailyData, d).dayStakeSharesTotal = 0) =>
        ret.type = "throw"

\* ------------------------------------------------------------------------
\* C9: for every stakedDays, penaltyDays in calcPayoutAndEarlyPenalty is the
\* integer max(ceil(stakedDays / 2), 90).
C9_PenaltyDaysInteger ==
    op = "calcPayoutAndEarlyPenalty" =>
        /\ IsInteger(locals.penaltyDays)
        /\ locals.penaltyDays = Num(Max((args.stakedDays + 1) \div 2, 90))

\* ------------------------------------------------------------------------
\* C10: for every valid input calcPayoutAndEarlyPenalty returns: with
\* servedDays = 0, payout 0 and penalty estimateSingleDay(pooledDay - 1) *
\* penaltyDays; with servedDays > 0, payout = accumulate(pooledDay, pooledDay +
\* servedDays) and penalty = accumulate(pooledDay, pooledDay + penaltyDays) when
\* penaltyDays < servedDays, payout when penaltyDays = servedDays, and
\* floor(payout * penaltyDays / servedDays) when penaltyDays > servedDays;
\* penaltyDays being max(ceil(stakedDays / 2), 90).
C10_ValidInput ==
    IF args.servedDays = 0
    THEN /\ InData(dailyData, args.pooledDay - 1)
         /\ Day(dailyData, args.pooledDay - 1).dayStakeSharesTotal + args.stakeShares # 0
    ELSE ValidRange(dailyData, args.pooledDay, args.pooledDay + args.servedDays)

C10_Expected ==
    LET penaltyDays == Max((args.stakedDays + 1) \div 2, 90)
        payout == SumDays(dailyData, args.stakeShares, args.pooledDay,
                          args.pooledDay + args.servedDays)
    IN
    IF args.servedDays = 0 THEN
        LET rec == Day(dailyData, args.pooledDay - 1) IN
        <<0, ((rec.dayPayoutTotal * args.stakeShares)
                 \div (rec.dayStakeSharesTotal + args.stakeShares)) * penaltyDays>>
    ELSE IF penaltyDays < args.servedDays THEN
        <<payout, SumDays(dailyData, args.stakeShares, args.pooledDay,
                          args.pooledDay + penaltyDays)>>
    ELSE IF penaltyDays = args.servedDays THEN <<payout, payout>>
    ELSE <<payout, (payout * penaltyDays) \div args.servedDays>>

C10_EarlyPenaltyAndPayout ==
    (op = "calcPayoutAndEarlyPenalty" /\ C10_ValidInput) => ret = Return(C10_Expected)

====
